---- MODULE Spec2Model ----
(***************************************************************************)
(* Model of the triage agent (src/app/app.py): the triage request handler  *)
(* triage_logs, the background workflow complete_rca_and_resolution_plan   *)
(* it schedules, and the APRS backend they write to.                       *)
(*                                                                         *)
(* One step of the model is one await of the code: the external call is    *)
(* issued, the backend or the inference service answers, and the code runs *)
(* on to its next await.  Batches interleave at these points only.         *)
(***************************************************************************)
EXTENDS Integers, Sequences, FiniteSets, TLC

\* ---------------------------------------------------------------- bounds
NumBatches == 1
MaxBatchLen == 3
MaxSends == 1

Batches == 1..NumBatches
\* two requests in flight at once (specification SpecPair)
PairBatches == {1, 2}

\* ------------------------------------------------------------- constants
TRIAGE_AUTHOR == "triage_agent"
DIAGNOSIS_AGENT_AUTHOR == "diagnosis-agent"
DEFAULT_ASSIGNEE == "John Doe"

\* ------------------------------------------------------------ data model
\* models.py LogEvent, reduced to the two fields the pipeline reads apart;
\* the pipeline never looks inside an event, one value stands for all
LogEvent == { [service |-> "api", trace_id |-> "t1"] }

\* the request bodies a caller may post to /api/v1/triage: the empty list
\* and a non-empty one
BatchInputs == { <<>> } \cup { << e >> : e \in LogEvent }

\* SpecBatch looks inside the events: two services, two trace ids, batches
\* long enough to repeat an event and to hold it in several orders
RECURSIVE SeqsUpTo(_, _)
SeqsUpTo(S, n) ==
    IF n = 0 THEN { <<>> }
    ELSE LET shorter == SeqsUpTo(S, n - 1)
         IN  shorter \cup { Append(s, x) : s \in shorter, x \in S }

AnyLogEvent == [ service : {"api", "db"}, trace_id : {"t1", "t2"} ]
AnyBatchInputs == SeqsUpTo(AnyLogEvent, MaxBatchLen)

\* What the inference service may answer to the triage prompt: text that is
\* not JSON (json FALSE), a JSON document without a required field, or a
\* full document.
NoDoc == [nothing |-> TRUE]
TriageContents ==
    { [json |-> FALSE, doc |-> NoDoc],
      [json |-> TRUE,  doc |-> [triage_title |-> "T1"]],
      [json |-> TRUE,  doc |-> [triage_title |-> "T1", triage_summary |-> "S1"]],
      [json |-> TRUE,  doc |-> [triage_title |-> "T2", triage_summary |-> "S2"]] }

\* TriageResponse.model_validate(json.loads(content)): raises unless the
\* content parses and carries both fields
TriageResponseValid(content) ==
    /\ content.json
    /\ {"triage_title", "triage_summary"} \subseteq DOMAIN content.doc

NoTriage == [triage_title |-> "", triage_summary |-> ""]

\* What the inference service may answer to the resolution-plan prompt.
PlanContents ==
    { [json |-> FALSE, doc |-> NoDoc],
      [json |-> TRUE,  doc |-> [confidence_score |-> 50]],
      [json |-> TRUE,  doc |-> [resolution_plan |-> <<1>>, confidence_score |-> 50]],
      [json |-> TRUE,  doc |-> [resolution_plan |-> <<1>>, confidence_score |-> 150]] }

\* ResolutionPlanResponse.model_validate: both fields present, the score an
\* int (models.py declares no range for it)
ResolutionPlanResponseValid(content) ==
    /\ content.json
    /\ {"resolution_plan", "confidence_score"} \subseteq DOMAIN content.doc
    /\ content.doc.confidence_score \in Int

NoPlan == [resolution_plan |-> <<>>, confidence_score |-> 0]

\* ---------------------------------------------------------------- gateway
\* What one HTTP exchange with the backend can end in.  net = FALSE is a
\* transport failure (no response at all).
BackendReplies ==
    { [net |-> FALSE, status |-> 0,   body |-> "empty"],
      [net |-> TRUE,  status |-> 503, body |-> "json"],
      [net |-> TRUE,  status |-> 200, body |-> "garbage"],
      [net |-> TRUE,  status |-> 200, body |-> "empty"],
      [net |-> TRUE,  status |-> 200, body |-> "json"] }

\* The backend carries out a write exactly when it answers 2xx with a body
\* the gateway can read (environment assumption).
Applied(reply) == reply.net /\ reply.status = 200 /\ reply.body # "garbage"

SuccessMarker == [status |-> "success", message |-> "Request completed successfully"]
AckDoc == [ok |-> TRUE]

\* _make_request without its empty-body branch: the empty body goes to
\* response.json() and fails to decode
MakeRequest_EmptyIsError(reply, doc) ==
    IF ~reply.net
    THEN [raised |-> TRUE, status_code |-> 500,
          detail |-> "Failed to communicate with APRS API", value |-> NoDoc]
    ELSE IF reply.status >= 400
    THEN [raised |-> TRUE, status_code |-> reply.status,
          detail |-> "APRS API error", value |-> NoDoc]
    ELSE IF reply.body \in {"empty", "garbage"}
    THEN [raised |-> TRUE, status_code |-> 500,
          detail |-> "Invalid JSON response from APRS API", value |-> NoDoc]
    ELSE [raised |-> FALSE, status_code |-> reply.status,
          detail |-> "", value |-> doc]

\* APRSClient._make_request: doc is the document the body parses to
MakeRequest(reply, doc) ==
    IF ~reply.net
    THEN [raised |-> TRUE, status_code |-> 500,
          detail |-> "Failed to communicate with APRS API", value |-> NoDoc]
    ELSE IF reply.status >= 400
    THEN [raised |-> TRUE, status_code |-> reply.status,
          detail |-> "APRS API error", value |-> NoDoc]
    ELSE IF reply.body = "empty"
    THEN [raised |-> FALSE, status_code |-> reply.status,
          detail |-> "", value |-> SuccessMarker]
    ELSE IF reply.body = "garbage"
    THEN [raised |-> TRUE, status_code |-> 500,
          detail |-> "Invalid JSON response from APRS API", value |-> NoDoc]
    ELSE [raised |-> FALSE, status_code |-> reply.status,
          detail |-> "", value |-> doc]

\* ------------------------------------------------------------------ state
VARIABLES
    pc,               \* per batch: the await the workflow is suspended at
    log_events,       \* per batch: the request body of triage_logs
    triage_response,  \* per batch: the validated TriageResponse
    incident_id,      \* per batch: incident["incidentId"], 0 before creation
    resolution_plan,  \* per batch: the plan find_resolution_plan returned
    response,         \* per batch: what the caller of triage_logs received
    scheduled,        \* per batch: number of asyncio.create_task calls made
    calls,            \* per batch: the outbound calls attempted, in order
    incidents,        \* backend: the incidents created, incidentId = index
    timeline,         \* backend: per incident, the audit-trail entries in order
    root_cause,       \* backend: per incident, the analyses posted
    resolution_plans  \* backend: per incident, the plans posted

vars == << pc, log_events, triage_response, incident_id, resolution_plan,
           response, scheduled, calls, incidents, timeline, root_cause,
           resolution_plans >>

local_vars == << log_events, triage_response, incident_id, resolution_plan >>
backend_vars == << incidents, timeline, root_cause, resolution_plans >>

NoResponse == [kind |-> "none", status_code |-> 0, body |-> NoTriage]
ErrorResponse(code) == [kind |-> "error", status_code |-> code, body |-> NoTriage]
OkResponse(triage) == [kind |-> "ok", status_code |-> 200, body |-> triage]

\* --------------------------------------------------------- control flow
\* The awaits of the synchronous prefix (triage_logs) and of the background
\* task, in program order.
SyncSteps == {"triage", "create", "seed_detected", "seed_rca"}
Phase5Steps == {"rca_completed", "root_cause", "rp_pending"}
Phase6Steps == {"rp_start", "kb", "plan", "rp_assess", "save"}
BackgroundSteps == {"rca_delay"} \cup Phase5Steps \cup Phase6Steps

\* where the code goes when the awaited call returns normally
OnSuccess(step) ==
    CASE step = "triage"        -> "create"
      [] step = "create"        -> "seed_detected"
      [] step = "seed_detected" -> "seed_rca"
      [] step = "seed_rca"      -> "rca_delay"
      [] step = "rca_delay"     -> "rca_completed"
      [] step = "rca_completed" -> "root_cause"
      [] step = "root_cause"    -> "rp_pending"
      [] step = "rp_pending"    -> "rp_start"
      [] step = "rp_start"      -> "kb"
      [] step = "kb"            -> "plan"
      [] step = "plan"          -> "rp_assess"
      [] step = "rp_assess"     -> "save"
      [] step = "save"          -> "finished"

\* OnFailure with analyze_logs_with_ai swallowing its exception
OnFailure_TriageSwallowed(step) ==
    CASE step = "triage"               -> "create"
      [] step = "create"               -> "failed"
      [] step = "seed_detected"        -> "seed_rca"
      [] step = "seed_rca"             -> "rca_delay"
      [] step \in Phase5Steps          -> "rp_start"
      [] step \in Phase6Steps          -> "finished"

\* OnFailure with a try/except around create_incident that logs and goes on
OnFailure_CreateSwallowed(step) ==
    CASE step = "triage"               -> "failed"
      [] step = "create"               -> "seed_detected"
      [] step = "seed_detected"        -> "seed_rca"
      [] step = "seed_rca"             -> "rca_delay"
      [] step \in Phase5Steps          -> "rp_start"
      [] step \in Phase6Steps          -> "finished"

\* OnFailure with the background workflow awaited by triage_logs and its
\* exceptions re-raised to the caller
OnFailure_BackgroundRaises(step) ==
    CASE step \in {"triage", "create"} -> "failed"
      [] step = "seed_detected"        -> "seed_rca"
      [] step = "seed_rca"             -> "rca_delay"
      [] step \in Phase5Steps          -> "rp_start"
      [] step \in Phase6Steps          -> "failed"

\* OnFailure with find_resolution_plan going on without references when the
\* knowledge-base fetch fails
OnFailure_KbSwallowed(step) ==
    CASE step \in {"triage", "create"} -> "failed"
      [] step = "seed_detected"        -> "seed_rca"
      [] step = "seed_rca"             -> "rca_delay"
      [] step \in Phase5Steps          -> "rp_start"
      [] step = "kb"                   -> "plan"
      [] step \in Phase6Steps \ {"kb"} -> "finished"

\* OnFailure with save_resolution_plan tried again when it fails
OnFailure_SaveRetried(step) ==
    CASE step \in {"triage", "create"}   -> "failed"
      [] step = "seed_detected"          -> "seed_rca"
      [] step = "seed_rca"               -> "rca_delay"
      [] step \in Phase5Steps            -> "rp_start"
      [] step = "save"                   -> "save"
      [] step \in Phase6Steps \ {"save"} -> "finished"

\* OnFailure with the second resolution-plan in_progress write in a
\* try/except of its own
OnFailure_AssessSwallowed(step) ==
    CASE step \in {"triage", "create"}        -> "failed"
      [] step = "seed_detected"               -> "seed_rca"
      [] step = "seed_rca"                    -> "rca_delay"
      [] step \in Phase5Steps                 -> "rp_start"
      [] step = "rp_assess"                   -> "save"
      [] step \in Phase6Steps \ {"rp_assess"} -> "finished"

\* OnFailure with the root-cause-analysis completed write in a try/except
\* of its own
OnFailure_RcaCompletedSwallowed(step) ==
    CASE step \in {"triage", "create"}            -> "failed"
      [] step = "seed_detected"                   -> "seed_rca"
      [] step = "seed_rca"                        -> "rca_delay"
      [] step = "rca_completed"                   -> "root_cause"
      [] step \in Phase5Steps \ {"rca_completed"} -> "rp_start"
      [] step \in Phase6Steps                     -> "finished"

\* where the code goes when the awaited call raises: the except clause that
\* catches it decides.  triage_logs catches nothing; each seeding write has
\* its own try/except; complete_rca_process catches everything and returns
\* normally to complete_rca_and_resolution_plan, whose own try/except ends
\* the task.
OnFailure(step) ==
    CASE step \in {"triage", "create"} -> "failed"
      [] step = "seed_detected"        -> "seed_rca"
      [] step = "seed_rca"             -> "rca_delay"
      [] step \in Phase5Steps          -> "rp_start"
      [] step \in Phase6Steps          -> "finished"

\* the caller's view after a step: an exception that leaves triage_logs is
\* the error response; reaching the end of triage_logs returns the
\* TriageResponse; nothing else touches it
ResponseAfter(current, step, next, triage, code) ==
    IF next = "failed" THEN ErrorResponse(code)
    ELSE IF step = "seed_rca" THEN OkResponse(triage)
    ELSE current

\* asyncio.create_task at the end of triage_logs
ScheduledAfter(n, step, next) ==
    IF step = "seed_rca" /\ next # "failed" THEN n + 1 ELSE n

\* the bookkeeping every await shares: log the attempt, move on, answer
\* (returned: the client call came back without raising; ok: so did the
\* code that reads its result)
Advance(b, step, returned, ok, code) ==
    LET next == IF ok THEN OnSuccess(step) ELSE OnFailure(step)
    IN  /\ calls' = [calls EXCEPT ![b] = Append(@, [op |-> step, ok |-> returned])]
        /\ pc' = [pc EXCEPT ![b] = next]
        /\ response' = [response EXCEPT ![b] =
               ResponseAfter(@, step, next, triage_response[b], code)]
        /\ scheduled' = [scheduled EXCEPT ![b] = ScheduledAfter(@, step, next)]

\* Nothing has been posted yet and the backend is empty.  The backend
\* numbers the incidents it creates from 1; no run creates more incidents
\* than it has batches.
InitFor(B) ==
    /\ pc = [b \in B |-> "idle"]
    /\ log_events = [b \in B |-> <<>>]
    /\ triage_response = [b \in B |-> NoTriage]
    /\ incident_id = [b \in B |-> 0]
    /\ resolution_plan = [b \in B |-> NoPlan]
    /\ response = [b \in B |-> NoResponse]
    /\ scheduled = [b \in B |-> 0]
    /\ calls = [b \in B |-> <<>>]
    /\ incidents = <<>>
    /\ timeline = [i \in 1..Cardinality(B) |-> <<>>]
    /\ root_cause = [i \in 1..Cardinality(B) |-> <<>>]
    /\ resolution_plans = [i \in 1..Cardinality(B) |-> <<>>]

Init == InitFor(Batches)
InitPair == InitFor(PairBatches)

\* ReceiveFrom without the `if not log_events` check
ReceiveFrom_NoCheck(b, inputs) ==
    /\ pc[b] = "idle"
    /\ \E evs \in inputs :
         /\ log_events' = [log_events EXCEPT ![b] = evs]
         /\ pc' = [pc EXCEPT ![b] = "triage"]
         /\ UNCHANGED response
    /\ UNCHANGED << triage_response, incident_id, resolution_plan, scheduled,
                    calls, backend_vars >>

\* triage_logs up to its first await: the empty batch is refused
ReceiveFrom(b, inputs) ==
    /\ pc[b] = "idle"
    /\ \E evs \in inputs :
         /\ log_events' = [log_events EXCEPT ![b] = evs]
         /\ IF evs = <<>>
            THEN /\ pc' = [pc EXCEPT ![b] = "rejected"]
                 /\ response' = [response EXCEPT ![b] = ErrorResponse(400)]
            ELSE /\ pc' = [pc EXCEPT ![b] = "triage"]
                 /\ UNCHANGED response
    /\ UNCHANGED << triage_response, incident_id, resolution_plan, scheduled,
                    calls, backend_vars >>

Receive(b) == ReceiveFrom(b, BatchInputs)
ReceiveAnyBatch(b) == ReceiveFrom(b, AnyBatchInputs)

\* analyze_logs_with_ai: one completion call; a transport failure or a
\* content that fails validation raises HTTPException(500)
AnalyzeLogsWithAi(b) ==
    /\ pc[b] = "triage"
    /\ \E transport_ok \in BOOLEAN, content \in TriageContents :
         LET ok == transport_ok /\ TriageResponseValid(content)
         IN  /\ triage_response' = [triage_response EXCEPT ![b] =
                    IF ok THEN content.doc ELSE @]
             /\ Advance(b, "triage", ok, ok, 500)
    /\ UNCHANGED << log_events, incident_id, resolution_plan, backend_vars >>

Range(seq) == { seq[i] : i \in DOMAIN seq }

\* list(S) of a set: its elements once each, in an order the program does
\* not control
ListsOfSet(S) ==
    { l \in [1..Cardinality(S) -> S] : \A i, j \in DOMAIN l : l[i] = l[j] => i = j }

\* the comprehension without set(): one entry per event
AffectedServices_NoSet(evs) == { [ i \in DOMAIN evs |-> evs[i].service ] }

\* list(set(log_event.service for log_event in log_events)): the lists it
\* may evaluate to
AffectedServices(evs) == ListsOfSet({ evs[i].service : i \in DOMAIN evs })
AffectedRequests(evs) == ListsOfSet({ evs[i].trace_id : i \in DOMAIN evs })

\* the APRSIncident triage_logs builds
IncidentData(triage, services, requests) ==
    [ title            |-> triage.triage_title,
      affectedServices |-> services,
      affectedRequests |-> requests,
      assignee         |-> [type |-> "aprs", name |-> DEFAULT_ASSIGNEE],
      createdBy        |-> TRIAGE_AUTHOR,
      status           |-> "In Progress" ]

\* CreateIncident reading the id with incident.get("incidentId"): a result
\* without the key goes on with no id
CreateIncident_NoIdCheck(b) ==
    /\ pc[b] = "create"
    /\ \E reply \in BackendReplies,
          services \in AffectedServices(log_events[b]),
          requests \in AffectedRequests(log_events[b]) :
         LET new_id == Len(incidents) + 1
             r == MakeRequest(reply, [incidentId |-> new_id])
             has_id == ~r.raised /\ "incidentId" \in DOMAIN r.value
         IN  /\ incidents' = IF Applied(reply)
                    THEN Append(incidents,
                                IncidentData(triage_response[b], services, requests))
                    ELSE incidents
             /\ incident_id' = [incident_id EXCEPT ![b] =
                    IF has_id THEN r.value.incidentId ELSE @]
             /\ Advance(b, "create", ~r.raised, ~r.raised, r.status_code)
    /\ UNCHANGED << log_events, triage_response, resolution_plan, timeline,
                    root_cause, resolution_plans >>

\* aprs_client.create_incident and incident["incidentId"]: a failed call
\* leaves triage_logs with the gateway's status code, a result without the
\* key leaves it as a KeyError (500)
CreateIncident(b) ==
    /\ pc[b] = "create"
    /\ \E reply \in BackendReplies,
          services \in AffectedServices(log_events[b]),
          requests \in AffectedRequests(log_events[b]) :
         LET new_id == Len(incidents) + 1
             r == MakeRequest(reply, [incidentId |-> new_id])
             has_id == ~r.raised /\ "incidentId" \in DOMAIN r.value
         IN  /\ incidents' = IF Applied(reply)
                    THEN Append(incidents,
                                IncidentData(triage_response[b], services, requests))
                    ELSE incidents
             /\ incident_id' = [incident_id EXCEPT ![b] =
                    IF has_id THEN r.value.incidentId ELSE @]
             /\ Advance(b, "create", ~r.raised, has_id,
                        IF r.raised THEN r.status_code ELSE 500)
    /\ UNCHANGED << log_events, triage_response, resolution_plan, timeline,
                    root_cause, resolution_plans >>

\* the log lines of the incident-detected entry, one per event
LogSnippet(evs) == [ i \in DOMAIN evs |-> << evs[i].service, evs[i].trace_id >> ]

TimelineEntry(channel, status, snippet, author) ==
    [ timeline_type |-> channel, status |-> status,
      logSnippet |-> snippet, author |-> author ]

\* CreateTimelineEntry posting to the incident created last, as if the
\* incident id were kept in one place for all requests
CreateTimelineEntry_LatestIncident(b, step, entry) ==
    \E reply \in BackendReplies :
        LET r == MakeRequest(reply, AckDoc)
        IN  /\ timeline' = IF Applied(reply)
                   THEN [timeline EXCEPT ![Len(incidents)] = Append(@, entry)]
                   ELSE timeline
            /\ Advance(b, step, ~r.raised, ~r.raised, r.status_code)

\* aprs_client.create_timeline_entry awaited at `step`
CreateTimelineEntry(b, step, entry) ==
    \E reply \in BackendReplies :
        LET r == MakeRequest(reply, AckDoc)
        IN  /\ timeline' = IF Applied(reply)
                   THEN [timeline EXCEPT ![incident_id[b]] = Append(@, entry)]
                   ELSE timeline
            /\ Advance(b, step, ~r.raised, ~r.raised, r.status_code)

\* create_incident_timeline_entries, first write
SeedDetected(b) ==
    /\ pc[b] = "seed_detected"
    /\ CreateTimelineEntry(b, "seed_detected",
           TimelineEntry("incident-detected", "completed",
                         LogSnippet(log_events[b]), TRIAGE_AUTHOR))
    /\ UNCHANGED << local_vars, incidents, root_cause, resolution_plans >>

\* SeedRca posting the completion payload's status
SeedRca_WrongStatus(b) ==
    /\ pc[b] = "seed_rca"
    /\ CreateTimelineEntry(b, "seed_rca",
           TimelineEntry("root-cause-analysis", "completed",
                         << "RCA requested for", triage_response[b].triage_title >>,
                         TRIAGE_AUTHOR))
    /\ UNCHANGED << local_vars, incidents, root_cause, resolution_plans >>

\* create_incident_timeline_entries, second write, and the rest of
\* triage_logs: create_task and return
SeedRca(b) ==
    /\ pc[b] = "seed_rca"
    /\ CreateTimelineEntry(b, "seed_rca",
           TimelineEntry("root-cause-analysis", "in_progress",
                         << "RCA requested for", triage_response[b].triage_title >>,
                         TRIAGE_AUTHOR))
    /\ UNCHANGED << local_vars, incidents, root_cause, resolution_plans >>

\* complete_rca_process: asyncio.sleep(RCA_DELAY_SECONDS) elapses
RcaDelay(b) ==
    /\ pc[b] = "rca_delay"
    /\ scheduled[b] > 0
    /\ pc' = [pc EXCEPT ![b] = OnSuccess("rca_delay")]
    /\ UNCHANGED << local_vars, response, scheduled, calls, backend_vars >>

\* complete_rca_process: root-cause-analysis completed
RcaCompleted(b) ==
    /\ pc[b] = "rca_completed"
    /\ CreateTimelineEntry(b, "rca_completed",
           TimelineEntry("root-cause-analysis", "completed",
                         << "RCA performed for", triage_response[b].triage_title >>,
                         TRIAGE_AUTHOR))
    /\ UNCHANGED << local_vars, incidents, root_cause, resolution_plans >>

\* complete_rca_process: aprs_client.create_root_cause_analysis
CreateRootCauseAnalysis(b) ==
    /\ pc[b] = "root_cause"
    /\ \E reply \in BackendReplies :
         LET r == MakeRequest(reply, AckDoc)
         IN  /\ root_cause' = IF Applied(reply)
                    THEN [root_cause EXCEPT ![incident_id[b]] =
                              Append(@, triage_response[b].triage_summary)]
                    ELSE root_cause
             /\ Advance(b, "root_cause", ~r.raised, ~r.raised, r.status_code)
    /\ UNCHANGED << local_vars, incidents, timeline, resolution_plans >>

\* complete_rca_process: resolution-plan pending
ResolutionPending(b) ==
    /\ pc[b] = "rp_pending"
    /\ CreateTimelineEntry(b, "rp_pending",
           TimelineEntry("resolution-plan", "pending",
                         << "RCA performed for", triage_response[b].triage_title >>,
                         TRIAGE_AUTHOR))
    /\ UNCHANGED << local_vars, incidents, root_cause, resolution_plans >>

\* complete_rca_and_resolution_plan: resolution-plan in_progress (start)
ResolutionStart(b) ==
    /\ pc[b] = "rp_start"
    /\ CreateTimelineEntry(b, "rp_start",
           TimelineEntry("resolution-plan", "in_progress",
                         << "Using AI to generate remedy for the issue" >>,
                         DIAGNOSIS_AGENT_AUTHOR))
    /\ UNCHANGED << local_vars, incidents, root_cause, resolution_plans >>

\* the list kb/search answers with
KbDoc == [items |-> << [text |-> "K1"] >>]

\* find_resolution_plan: aprs_client.get_kb_data; the comprehension over the
\* result raises on anything but a list of items (the success marker is a
\* dict of strings)
GetKbData(b) ==
    /\ pc[b] = "kb"
    /\ \E reply \in BackendReplies :
         LET r == MakeRequest(reply, KbDoc)
             ok == ~r.raised /\ "items" \in DOMAIN r.value
         IN  Advance(b, "kb", ok, ok, 500)
    /\ UNCHANGED << local_vars, backend_vars >>

\* find_resolution_plan: the completion call and its validation
PlanInference(b) ==
    /\ pc[b] = "plan"
    /\ \E transport_ok \in BOOLEAN, content \in PlanContents :
         LET ok == transport_ok /\ ResolutionPlanResponseValid(content)
         IN  /\ resolution_plan' = [resolution_plan EXCEPT ![b] =
                    IF ok THEN content.doc ELSE @]
             /\ Advance(b, "plan", ok, ok, 500)
    /\ UNCHANGED << log_events, triage_response, incident_id, backend_vars >>

\* complete_rca_and_resolution_plan: resolution-plan in_progress (assessing)
ConfidenceAssessment(b) ==
    /\ pc[b] = "rp_assess"
    /\ CreateTimelineEntry(b, "rp_assess",
           TimelineEntry("resolution-plan", "in_progress",
                         << "Assessing confidence score for resolution plan" >>,
                         DIAGNOSIS_AGENT_AUTHOR))
    /\ UNCHANGED << local_vars, incidents, root_cause, resolution_plans >>

\* the document posted to incidents/{id}/resolution-plan
ApiResolutionPlan(plan) ==
    [ confidenceScore |-> plan.confidence_score, steps |-> plan.resolution_plan ]

\* complete_rca_and_resolution_plan: aprs_client.save_resolution_plan
SaveResolutionPlan(b) ==
    /\ pc[b] = "save"
    /\ \E reply \in BackendReplies :
         LET r == MakeRequest(reply, AckDoc)
         IN  /\ resolution_plans' = IF Applied(reply)
                    THEN [resolution_plans EXCEPT ![incident_id[b]] =
                              Append(@, ApiResolutionPlan(resolution_plan[b]))]
                    ELSE resolution_plans
             /\ Advance(b, "save", ~r.raised, ~r.raised, r.status_code)
    /\ UNCHANGED << local_vars, incidents, timeline, root_cause >>

Step(b) ==
    \/ Receive(b)
    \/ AnalyzeLogsWithAi(b)
    \/ CreateIncident(b)
    \/ SeedDetected(b)
    \/ SeedRca(b)
    \/ RcaDelay(b)
    \/ RcaCompleted(b)
    \/ CreateRootCauseAnalysis(b)
    \/ ResolutionPending(b)
    \/ ResolutionStart(b)
    \/ GetKbData(b)
    \/ PlanInference(b)
    \/ ConfidenceAssessment(b)
    \/ SaveResolutionPlan(b)

Next == \E b \in Batches : Step(b)
NextPair == \E b \in PairBatches : Step(b)

\* NumBatches requests in flight
Spec == Init /\ [][Next]_vars
\* two requests in flight, interleaving at their awaits
SpecPair == InitPair /\ [][NextPair]_vars

\* one request whose batch is any list of events up to MaxBatchLen, followed
\* as far as the incident it creates
OneBatch == {1}
InitBatch == InitFor(OneBatch)
NextBatch ==
    \E b \in OneBatch :
        \/ ReceiveAnyBatch(b)
        \/ AnalyzeLogsWithAi(b)
        \/ CreateIncident(b)
SpecBatch == InitBatch /\ [][NextBatch]_vars

\* ------------------------------------------------------- the gateway alone
\* the statuses and bodies one exchange can end in, and the documents a JSON
\* body can parse to
GatewayStatuses == {200, 201, 204, 400, 404, 500, 503}
GatewayReplies ==
    { [net |-> FALSE, status |-> 0, body |-> "empty"] }
    \cup [net : {TRUE}, status : GatewayStatuses, body : {"json", "empty", "garbage"}]
GatewayDocs ==
    { AckDoc, KbDoc, SuccessMarker, [incidentId |-> 1], [error |-> "no such incident"] }

\* one call of APRSClient._make_request, logged with what the backend did
\* and what the call gave back
Send(b) ==
    /\ Len(calls[b]) < MaxSends
    /\ \E reply \in GatewayReplies, doc \in GatewayDocs :
         LET r == MakeRequest(reply, doc)
         IN  calls' = [calls EXCEPT ![b] =
                 Append(@, [op |-> "send", ok |-> ~r.raised, reply |-> reply,
                            doc |-> doc, result |-> r])]
    /\ UNCHANGED << pc, local_vars, response, scheduled, backend_vars >>

InitGateway == InitFor(OneBatch)
NextGateway == \E b \in OneBatch : Send(b)
\* up to MaxSends calls through the gateway
SpecGateway == InitGateway /\ [][NextGateway]_vars

\* --------------------------------------------- /api/v1/resolution-plan
\* the requests posted to the direct operation while request 1 goes through
\* /api/v1/triage: the incident id named may or may not exist at the
\* backend, and the logs may be empty (ResolutionPlanRequest has no check)
DirectRequests == {2}
ResolutionPlanRequest ==
    [ incident_id : {1, 2},
      rca : { c.doc : c \in { t \in TriageContents : TriageResponseValid(t) } },
      logs : BatchInputs ]

PlanResponse(plan) == [kind |-> "plan", status_code |-> 200, body |-> plan]

\* resolution_plan_generation entered with a validated request
DirectReceive(d) ==
    /\ pc[d] = "idle"
    /\ \E request \in ResolutionPlanRequest :
         /\ incident_id' = [incident_id EXCEPT ![d] = request.incident_id]
         /\ triage_response' = [triage_response EXCEPT ![d] = request.rca]
         /\ log_events' = [log_events EXCEPT ![d] = request.logs]
    /\ pc' = [pc EXCEPT ![d] = "direct_kb"]
    /\ UNCHANGED << resolution_plan, response, scheduled, calls, backend_vars >>

\* an await of find_resolution_plan called from resolution_plan_generation:
\* any exception becomes HTTPException 500 and is the caller's answer
DirectAdvance(d, step, ok, next, answer) ==
    /\ calls' = [calls EXCEPT ![d] = Append(@, [op |-> step, ok |-> ok])]
    /\ pc' = [pc EXCEPT ![d] = IF ok THEN next ELSE "direct_failed"]
    /\ response' = [response EXCEPT ![d] = IF ok THEN answer ELSE ErrorResponse(500)]
    /\ UNCHANGED scheduled

\* find_resolution_plan: aprs_client.get_kb_data
DirectGetKbData(d) ==
    /\ pc[d] = "direct_kb"
    /\ \E reply \in BackendReplies :
         LET r == MakeRequest(reply, KbDoc)
             ok == ~r.raised /\ "items" \in DOMAIN r.value
         IN  DirectAdvance(d, "direct_kb", ok, "direct_plan", response[d])
    /\ UNCHANGED << local_vars, backend_vars >>

\* find_resolution_plan persisting the plan it found
DirectPlanInference_Persists(d) ==
    /\ pc[d] = "direct_plan"
    /\ \E transport_ok \in BOOLEAN, content \in PlanContents :
         LET ok == transport_ok /\ ResolutionPlanResponseValid(content)
         IN  /\ resolution_plan' = [resolution_plan EXCEPT ![d] =
                    IF ok THEN content.doc ELSE @]
             /\ resolution_plans' = IF ok
                    THEN [resolution_plans EXCEPT ![incident_id[d]] =
                              Append(@, ApiResolutionPlan(content.doc))]
                    ELSE resolution_plans
             /\ DirectAdvance(d, "direct_plan", ok, "direct_done",
                              PlanResponse(content.doc))
    /\ UNCHANGED << log_events, triage_response, incident_id, incidents,
                    timeline, root_cause >>

\* find_resolution_plan: the completion call and its validation; the plan
\* is the response of resolution_plan_generation
DirectPlanInference(d) ==
    /\ pc[d] = "direct_plan"
    /\ \E transport_ok \in BOOLEAN, content \in PlanContents :
         LET ok == transport_ok /\ ResolutionPlanResponseValid(content)
         IN  /\ resolution_plan' = [resolution_plan EXCEPT ![d] =
                    IF ok THEN content.doc ELSE @]
             /\ DirectAdvance(d, "direct_plan", ok, "direct_done",
                              PlanResponse(content.doc))
    /\ UNCHANGED << log_events, triage_response, incident_id, backend_vars >>

DirectStep(d) ==
    \/ DirectReceive(d)
    \/ DirectGetKbData(d)
    \/ DirectPlanInference(d)

InitDirect == InitFor(OneBatch \cup DirectRequests)
NextDirect ==
    \/ \E b \in OneBatch : Step(b)
    \/ \E d \in DirectRequests : DirectStep(d)
\* one triage request and one direct resolution-plan request in flight
SpecDirect == InitDirect /\ [][NextDirect]_vars

TypeOK ==
    /\ \A b \in DOMAIN pc :
         /\ pc[b] \in {"idle", "rejected", "failed", "finished"}
                      \cup SyncSteps \cup BackgroundSteps
         /\ scheduled[b] \in 0..1
         /\ incident_id[b] \in 0..Len(incidents)
    /\ Len(incidents) <= Cardinality(DOMAIN pc)

\* ---------------------------------------------------------------- claims
\* vocabulary over the call log and the backend
Workflows == DOMAIN pc

Attempted(b, op) == \E i \in DOMAIN calls[b] : calls[b][i].op = op
Succeeded(b, op) == \E i \in DOMAIN calls[b] : calls[b][i].op = op /\ calls[b][i].ok
Failed(b, op) == \E i \in DOMAIN calls[b] : calls[b][i].op = op /\ ~calls[b][i].ok
Count(b, op) == Cardinality({ i \in DOMAIN calls[b] : calls[b][i].op = op })

TimelineSteps == {"seed_detected", "seed_rca", "rca_completed", "rp_pending",
                  "rp_start", "rp_assess"}
WriteSteps == TimelineSteps \cup {"root_cause", "save"}

\* the outbound call that follows `op` in program order
FollowingCall(op) ==
    IF OnSuccess(op) = "rca_delay" THEN OnSuccess("rca_delay") ELSE OnSuccess(op)

IsEntry(e, channel, status) == e.timeline_type = channel /\ e.status = status

\* the timeline of b's incident, empty while b has no incident
TimelineOf(b) == IF incident_id[b] \in DOMAIN timeline THEN timeline[incident_id[b]] ELSE <<>>

\* C1: phase 6 is attempted only after all three phase-5 writes succeeded,
\* and a failed phase-5 write is the last call the workflow makes.
C1_Phase6OnlyAfterPhase5 ==
    \A b \in Workflows :
        /\ Attempted(b, "rp_start") => \A s \in Phase5Steps : Succeeded(b, s)
        /\ \A i \in DOMAIN calls[b] :
               (calls[b][i].op \in Phase5Steps /\ ~calls[b][i].ok) => i = Len(calls[b])

\* C2: a failed timeline write, wherever it is issued, neither fails the
\* request nor keeps the call that follows it from being attempted.
C2_TimelineWritesBestEffort ==
    \A b \in Workflows : \A i \in DOMAIN calls[b] :
        (calls[b][i].op \in TimelineSteps /\ ~calls[b][i].ok) =>
            /\ response[b].kind # "error"
            /\ pc[b] = "finished" => Attempted(b, FollowingCall(calls[b][i].op))

\* C3 as stated: a completed entry in the root-cause-analysis channel always
\* has an in_progress entry before it, whatever failed.
C3_CompletedHasInProgress ==
    \A id \in DOMAIN timeline : \A j \in DOMAIN timeline[id] :
        IsEntry(timeline[id][j], "root-cause-analysis", "completed") =>
            \E i \in 1..(j - 1) :
                IsEntry(timeline[id][i], "root-cause-analysis", "in_progress")

\* C3 amended: a completed entry in the root-cause-analysis channel is
\* written only after the in_progress write was attempted, and the
\* in_progress entry precedes it whenever that write succeeded.
C3_CompletedAfterInProgressAttempt ==
    \A b \in Workflows : \A j \in DOMAIN TimelineOf(b) :
        IsEntry(TimelineOf(b)[j], "root-cause-analysis", "completed") =>
            /\ Attempted(b, "seed_rca")
            /\ Succeeded(b, "seed_rca") =>
                   \E i \in 1..(j - 1) :
                       IsEntry(TimelineOf(b)[i], "root-cause-analysis", "in_progress")

C3_Witness ==
    \E b \in Workflows : \E i, j \in DOMAIN TimelineOf(b) :
        /\ i < j
        /\ IsEntry(TimelineOf(b)[i], "root-cause-analysis", "in_progress")
        /\ IsEntry(TimelineOf(b)[j], "root-cause-analysis", "completed")

\* C4: after a failed triage inference the request has failed with the
\* inference error and the batch has issued no other call and scheduled no
\* background workflow.
C4_TriageFailureShortCircuits ==
    \A b \in Workflows :
        Failed(b, "triage") =>
            /\ pc[b] = "failed"
            /\ response[b] = ErrorResponse(500)
            /\ calls[b] = << [op |-> "triage", ok |-> FALSE] >>
            /\ incident_id[b] = 0
            /\ scheduled[b] = 0

C4_Witness ==
    \E b \in Workflows : Failed(b, "triage") /\ response[b].kind = "error"

\* C5: after a failed incident creation the request has failed, the creation
\* was the batch's last call and was made once, and nothing was scheduled.
C5_CreateFailureShortCircuits ==
    \A b \in Workflows :
        Failed(b, "create") =>
            /\ pc[b] = "failed"
            /\ response[b].kind = "error"
            /\ calls[b][Len(calls[b])].op = "create"
            /\ Count(b, "create") = 1
            /\ \A s \in WriteSteps : ~Attempted(b, s)
            /\ scheduled[b] = 0

C5_Witness ==
    \E b \in Workflows : Failed(b, "create") /\ response[b].kind = "error"

\* C6: an empty batch is answered with an error and causes no inference
\* call, no backend call and no scheduling.
C6_EmptyBatchRejected ==
    \A b \in Workflows :
        (pc[b] # "idle" /\ log_events[b] = <<>>) =>
            /\ pc[b] = "rejected"
            /\ response[b] = ErrorResponse(400)
            /\ calls[b] = <<>>
            /\ scheduled[b] = 0

C6_Witness ==
    \E b \in Workflows : pc[b] = "rejected" /\ log_events[b] = <<>>

\* C7: whatever the backend holds for an incident id was written for an
\* incident it created, by the batch that got that id from a successful
\* creation; no batch issues a write before it holds an incident id.
C7_WritesOnlyForCreatedIncident ==
    /\ \A id \in DOMAIN timeline :
           (timeline[id] # <<>> \/ root_cause[id] # <<>> \/ resolution_plans[id] # <<>>) =>
               /\ id <= Len(incidents)
               /\ \E b \in Workflows : incident_id[b] = id /\ Succeeded(b, "create")
    /\ \A b \in Workflows : \A i \in DOMAIN calls[b] :
           calls[b][i].op \in WriteSteps =>
               /\ incident_id[b] \in 1..Len(incidents)
               /\ \E j \in 1..(i - 1) : calls[b][j].op = "create" /\ calls[b][j].ok

C7_Witness ==
    \E b1, b2 \in Workflows :
        /\ b1 # b2
        /\ incident_id[b1] # 0 /\ incident_id[b2] # 0
        /\ timeline[incident_id[b1]] # <<>>
        /\ resolution_plans[incident_id[b2]] # <<>>
        /\ root_cause[incident_id[b2]] # <<>>

\* C8: once the background workflow has been scheduled the caller holds the
\* TriageResult, and stays holding it whatever the workflow's calls end in.
C8_ResponseFixedBeforeBackground ==
    \A b \in Workflows :
        scheduled[b] > 0 => response[b] = OkResponse(triage_response[b])

C8_Witness ==
    \E b \in Workflows :
        /\ pc[b] = "finished"
        /\ \E s \in Phase5Steps \cup Phase6Steps : Failed(b, s)
        /\ response[b].kind = "ok"

\* C9: once the request is over, the caller has the TriageResult exactly
\* when triage inference and incident creation both returned successfully,
\* and the background workflow was scheduled once in exactly those cases.
C9_BinaryOutcome ==
    \A b \in Workflows :
        pc[b] \notin {"idle"} \cup SyncSteps =>
            /\ response[b].kind \in {"ok", "error"}
            /\ response[b].kind = "ok" <=>
                   (Succeeded(b, "triage") /\ Succeeded(b, "create"))
            /\ scheduled[b] = (IF response[b].kind = "ok" THEN 1 ELSE 0)

\* C10: when only the knowledge-base fetch fails, the workflow is over with
\* that call as its last, a resolution-plan in_progress entry is on the
\* timeline, no plan is stored, no plan inference was made and the caller
\* holds the TriageResult.
OnlyKbFailed(b) ==
    /\ Failed(b, "kb")
    /\ \A i \in DOMAIN calls[b] : calls[b][i].op # "kb" => calls[b][i].ok

C10_KbFailureEndsWorkflow ==
    \A b \in Workflows :
        OnlyKbFailed(b) =>
            /\ pc[b] = "finished"
            /\ calls[b][Len(calls[b])].op = "kb"
            /\ ~Attempted(b, "plan") /\ ~Attempted(b, "save")
            /\ resolution_plans[incident_id[b]] = <<>>
            /\ \E i \in DOMAIN TimelineOf(b) :
                   IsEntry(TimelineOf(b)[i], "resolution-plan", "in_progress")
            /\ response[b] = OkResponse(triage_response[b])

C10_Witness ==
    \E b \in Workflows : OnlyKbFailed(b) /\ pc[b] = "finished"

\* the batch in another order, and with events repeated
Permuted(evs) ==
    { [ i \in DOMAIN evs |-> evs[p[i]] ] :
        p \in { q \in [DOMAIN evs -> DOMAIN evs] :
                  \A i, j \in DOMAIN evs : q[i] = q[j] => i = j } }
Duplicated(evs) == { evs \o evs } \cup { Append(evs, evs[k]) : k \in DOMAIN evs }

NoDuplicates(l) == \A i, j \in DOMAIN l : l[i] = l[j] => i = j

\* C11: the incident created for a non-empty batch lists exactly the
\* services and the trace ids of the batch, each once, and reordering the
\* batch or repeating its events gives the same two sets.
C11_AffectedSetsDeduplicated ==
    \A b \in Workflows :
        incident_id[b] # 0 =>
            LET inc == incidents[incident_id[b]]
                evs == log_events[b]
            IN  /\ Range(inc.affectedServices) = { evs[i].service : i \in DOMAIN evs }
                /\ Range(inc.affectedRequests) = { evs[i].trace_id : i \in DOMAIN evs }
                /\ NoDuplicates(inc.affectedServices)
                /\ NoDuplicates(inc.affectedRequests)
                /\ \A v \in Permuted(evs) \cup Duplicated(evs) :
                       /\ \A l \in AffectedServices(v) :
                              Range(l) = Range(inc.affectedServices)
                       /\ \A l \in AffectedRequests(v) :
                              Range(l) = Range(inc.affectedRequests)

C11_Witness ==
    \E b \in Workflows :
        /\ incident_id[b] # 0
        /\ Len(log_events[b]) = 3
        /\ Len(incidents[incident_id[b]].affectedServices) = 2
        /\ Len(incidents[incident_id[b]].affectedRequests) = 2

PlansOf(b) ==
    IF incident_id[b] \in DOMAIN resolution_plans
    THEN resolution_plans[incident_id[b]] ELSE <<>>
RootCauseOf(b) ==
    IF incident_id[b] \in DOMAIN root_cause THEN root_cause[incident_id[b]] ELSE <<>>

\* the call at position i of b's log is `op` and returned normally
OkAt(b, i, op) == i \in DOMAIN calls[b] /\ calls[b][i].op = op /\ calls[b][i].ok

\* C12: a resolution-plan in_progress entry on an incident's timeline has a
\* resolution-plan pending entry before it.
C12_InProgressAfterPending ==
    \A b \in Workflows : \A j \in DOMAIN TimelineOf(b) :
        IsEntry(TimelineOf(b)[j], "resolution-plan", "in_progress") =>
            \E i \in 1..(j - 1) :
                IsEntry(TimelineOf(b)[i], "resolution-plan", "pending")

\* C13: no outbound operation of a batch's workflow is attempted twice.
AllSteps == SyncSteps \cup Phase5Steps \cup Phase6Steps

C13_NoStepRetried ==
    \A b \in Workflows : \A op \in AllSteps : Count(b, op) <= 1

C13_Witness ==
    \E b \in Workflows :
        /\ pc[b] = "finished"
        /\ Failed(b, "seed_detected") /\ Failed(b, "rp_pending") /\ Failed(b, "save")

\* C14: a plan is posted only right after the first in_progress write, the
\* knowledge-base fetch, the plan inference and the second in_progress
\* write, all successful and in this order; when one of the four fails it is
\* the workflow's last call, no plan is stored, and the timeline still holds
\* one entry per successful timeline write.
C14_PlanOnlyAfterFourSteps ==
    \A b \in Workflows :
        /\ \A n \in DOMAIN calls[b] :
               calls[b][n].op = "save" =>
                   /\ OkAt(b, n - 4, "rp_start")
                   /\ OkAt(b, n - 3, "kb")
                   /\ OkAt(b, n - 2, "plan")
                   /\ OkAt(b, n - 1, "rp_assess")
        /\ PlansOf(b) # <<>> => Succeeded(b, "save")
        /\ \A s \in {"rp_start", "kb", "plan", "rp_assess"} :
               Failed(b, s) =>
                   /\ pc[b] = "finished"
                   /\ calls[b][Len(calls[b])].op = s
                   /\ PlansOf(b) = <<>>
        /\ Len(TimelineOf(b)) =
               Cardinality({ i \in DOMAIN calls[b] :
                               calls[b][i].op \in TimelineSteps /\ calls[b][i].ok })

C14_Witness ==
    \E b \in Workflows :
        /\ Failed(b, "rp_assess")
        /\ \E i \in DOMAIN TimelineOf(b) :
               IsEntry(TimelineOf(b)[i], "resolution-plan", "in_progress")

\* C15: in phase 5 the root-cause text is posted only right after a
\* successful completed write and the pending entry only right after a
\* successful root-cause text write.
C15_Phase5InOrder ==
    \A b \in Workflows :
        /\ \A n \in DOMAIN calls[b] :
               /\ calls[b][n].op = "root_cause" => OkAt(b, n - 1, "rca_completed")
               /\ calls[b][n].op = "rp_pending" => OkAt(b, n - 1, "root_cause")
        /\ RootCauseOf(b) # <<>> => Succeeded(b, "rca_completed")
        /\ \A i \in DOMAIN TimelineOf(b) :
               IsEntry(TimelineOf(b)[i], "resolution-plan", "pending") =>
                   Succeeded(b, "root_cause")

C15_Witness ==
    \E b \in Workflows : \E i \in DOMAIN TimelineOf(b) :
        /\ IsEntry(TimelineOf(b)[i], "resolution-plan", "pending")
        /\ RootCauseOf(b) # <<>>

\* C17 (the part a finite run decides): a scheduled background workflow
\* makes no call after its first failed call.
C17_StopsAtFirstFailure ==
    \A b \in Workflows :
        scheduled[b] > 0 =>
            \A i \in DOMAIN calls[b] :
                (calls[b][i].op \in Phase5Steps \cup Phase6Steps /\ ~calls[b][i].ok) =>
                    (i = Len(calls[b]) /\ pc[b] = "finished")

\* the channel and status each timeline write of the code posts
StepEntry(op) ==
    CASE op = "seed_detected" -> << "incident-detected", "completed" >>
      [] op = "seed_rca"      -> << "root-cause-analysis", "in_progress" >>
      [] op = "rca_completed" -> << "root-cause-analysis", "completed" >>
      [] op = "rp_pending"    -> << "resolution-plan", "pending" >>
      [] op = "rp_start"      -> << "resolution-plan", "in_progress" >>
      [] op = "rp_assess"     -> << "resolution-plan", "in_progress" >>

IsOkTimelineCall(c) == c.op \in TimelineSteps /\ c.ok
OkTimelineCalls(b) == SelectSeq(calls[b], IsOkTimelineCall)

\* C16: with two batches interleaving, each keeps its own incident; what
\* the backend holds under a batch's incident id carries that batch's title,
\* summary and plan, and its timeline is, in order, that batch's successful
\* timeline writes.
C16_WorkflowsIsolated ==
    /\ \A b1, b2 \in Workflows :
           (b1 # b2 /\ incident_id[b1] # 0) => incident_id[b1] # incident_id[b2]
    /\ \A b \in Workflows :
           incident_id[b] # 0 =>
               /\ incidents[incident_id[b]].title = triage_response[b].triage_title
               /\ Len(TimelineOf(b)) = Len(OkTimelineCalls(b))
               /\ \A i \in DOMAIN TimelineOf(b) :
                      LET e == TimelineOf(b)[i]
                      IN  /\ << e.timeline_type, e.status >> = StepEntry(OkTimelineCalls(b)[i].op)
                          /\ e.timeline_type = "incident-detected" =>
                                 e.logSnippet = LogSnippet(log_events[b])
                          /\ (e.timeline_type # "incident-detected" /\ Len(e.logSnippet) = 2) =>
                                 e.logSnippet[2] = triage_response[b].triage_title
               /\ \A i \in DOMAIN RootCauseOf(b) :
                      RootCauseOf(b)[i] = triage_response[b].triage_summary
               /\ \A i \in DOMAIN PlansOf(b) :
                      PlansOf(b)[i] = ApiResolutionPlan(resolution_plan[b])

C16_Witness ==
    \E b1, b2 \in Workflows :
        /\ b1 # b2
        /\ triage_response[b1].triage_title # triage_response[b2].triage_title
        /\ RootCauseOf(b1) # <<>> /\ RootCauseOf(b2) # <<>>
        /\ resolution_plan[b1] # resolution_plan[b2]
        /\ PlansOf(b1) # <<>> /\ PlansOf(b2) # <<>>
        /\ pc[b2] = "finished" /\ Len(TimelineOf(b1)) = 3

\* C19: every resolution plan accepted from inference and persisted at the
\* backend has a confidence score between 0 and 100 inclusive.
C19_ConfidenceScoreInRange ==
    /\ \A b \in Workflows :
           Succeeded(b, "plan") => resolution_plan[b].confidence_score \in 0..100
    /\ \A id \in DOMAIN resolution_plans :
           \A i \in DOMAIN resolution_plans[id] :
               resolution_plans[id][i].confidenceScore \in 0..100

\* the sends logged so far
Sends == UNION { Range(calls[b]) : b \in Workflows }
Is2xx(reply) == reply.net /\ reply.status \in 200..299

\* C18: one send has exactly one result.  A 2xx answer with a JSON body
\* gives the parsed document; a 2xx answer with an empty body gives the
\* success marker and raises nothing; a transport failure, an HTTP error
\* status and an undecodable body each raise their own kind of error, and
\* the HTTP error carries the backend's status code.
C18_SendMapsEachOutcome ==
    \A c \in Sends :
        c.op = "send" =>
            LET r == c.result
            IN  /\ (Is2xx(c.reply) /\ c.reply.body = "json") =>
                       (~r.raised /\ r.value = c.doc)
                /\ (Is2xx(c.reply) /\ c.reply.body = "empty") =>
                       (~r.raised /\ r.value = SuccessMarker)
                /\ r.raised <=> ~(Is2xx(c.reply) /\ c.reply.body \in {"json", "empty"})
                /\ (r.detail = "Failed to communicate with APRS API") <=> ~c.reply.net
                /\ (r.detail = "APRS API error") <=>
                       (c.reply.net /\ ~Is2xx(c.reply))
                /\ (r.detail = "Invalid JSON response from APRS API") <=>
                       (Is2xx(c.reply) /\ c.reply.body = "garbage")
                /\ (c.reply.net /\ ~Is2xx(c.reply)) => r.status_code = c.reply.status
                /\ r.raised => r.detail # ""

C18_Witness ==
    \E c \in Sends :
        /\ c.op = "send"
        /\ c.reply.status = 204 /\ c.reply.body = "empty"
        /\ c.doc = KbDoc
        /\ ~c.result.raised /\ c.result.value = SuccessMarker

\* the direct resolution-plan requests among the workflows
Direct == Workflows \cap DirectRequests
DirectMoved(d) == pc'[d] # pc[d]

\* C20: a step of the direct resolution-plan operation leaves the backend
\* as it was (no incident, timeline entry, root-cause text or plan is
\* added) and schedules no background workflow; all the operation ever
\* issues is one knowledge-base read and then one inference call.
C20_DirectChangesNothing ==
    [][ \A d \in Direct :
            DirectMoved(d) =>
                /\ backend_vars' = backend_vars
                /\ scheduled' = scheduled /\ scheduled'[d] = 0
                /\ \A i \in DOMAIN calls'[d] :
                       calls'[d][i].op \in {"direct_kb", "direct_plan"}
                /\ Count(d, "direct_kb")' <= 1 /\ Count(d, "direct_plan")' <= 1
                /\ Attempted(d, "direct_plan")' => Succeeded(d, "direct_kb")' ]_vars

C20_Witness ==
    \E d \in Direct :
        /\ pc[d] = "direct_done"
        /\ response[d] = PlanResponse(resolution_plan[d])
        /\ Succeeded(d, "direct_kb") /\ Succeeded(d, "direct_plan")
        /\ incident_id[d] \in 1..Len(incidents)
        /\ timeline[incident_id[d]] # <<>>
        /\ resolution_plans[incident_id[d]] = <<>>

====
